---- MODULE Spec2Model ----
(***************************************************************************)
(* Route-to-content resolution of the embedded documentation site:         *)
(* apps/web/app/docs/[[...slug]]/page.tsx (generateStaticParams,           *)
(* generateMetadata, Page), apps/web/app/docs/layout.tsx (Layout) and the  *)
(* source object of packages/docs they look pages up in.                   *)
(***************************************************************************)
EXTENDS Naturals, Sequences, FiniteSets, TLC

VARIABLES content, phase, staticParams, req, invoked, pipeline, edits, mdx

vars == <<content, phase, staticParams, req, invoked, pipeline, edits, mdx>>

\* ------------------------------------------------------------------ values

\* JavaScript's undefined: an absent slug, an absent page, an absent field.
Undefined == [undefined |-> TRUE]

\* A present slug array (string[]) and a present string, as optional values.
Slug(segments) == [segments |-> segments]

Text(string) == [text |-> string]

\* How many handler invocations one run of the server is followed for.
MaxInvocations == 3

\* The most type errors, and lint warnings, a change is followed with.
MaxFindings == 1

\* How many content files are added or removed after the first build.
MaxEdits == 2

\* The request slots the hosting framework runs handlers in, concurrently.
Requests == {"r1", "r2"}

\* ----------------------------------------------------------- content files

IndexFile ==
    [dir |-> <<>>, name |-> "index", title |-> "Documentation",
     description |-> Text("Documentation home"), headings |-> <<"Welcome">>]

GettingStartedFile ==
    [dir |-> <<>>, name |-> "getting-started", title |-> "Getting Started",
     description |-> Undefined, headings |-> <<"Install", "Run">>]

ApiReferenceFile ==
    [dir |-> <<"api">>, name |-> "reference", title |-> "API Reference",
     description |-> Text("API reference page"), headings |-> <<>>]

ApiIndexFile ==
    [dir |-> <<"api">>, name |-> "index", title |-> "API",
     description |-> Text("API overview"), headings |-> <<"Overview">>]

UpperApiReferenceFile ==
    [dir |-> <<"API">>, name |-> "reference", title |-> "Legacy API Reference",
     description |-> Undefined, headings |-> <<"Legacy">>]

\* An MDX file whose frontmatter does not parse: no title, no body.
MalformedFile == [dir |-> <<>>, name |-> "broken"]

Parsable(file) == "title" \in DOMAIN file

\* The MDX files a content directory may hold; a content set is any subset.
ContentFiles ==
    {IndexFile, GettingStartedFile, ApiReferenceFile, ApiIndexFile,
     UpperApiReferenceFile}

\* The slug values the framework may hand to a handler.
RequestSlugs ==
    {Undefined, Slug(<<>>), Slug(<<"getting-started">>), Slug(<<"api">>),
     Slug(<<"api", "reference">>), Slug(<<"api", "missing">>),
     Slug(<<"API", "reference">>), Slug(<<"api", "reference", "missing">>),
     Slug(<<"missing">>)}

\* ------------------------------------------------------------- the source

\* Variant: index is kept as an empty last segment instead of being dropped.
FileSlugs_EmptyIndexSegment(file) ==
    IF file.name = "index" THEN Append(file.dir, "")
    ELSE Append(file.dir, file.name)

\* File path to slugs: the extension is dropped, index names its directory.
FileSlugs(file) ==
    IF file.name = "index" THEN file.dir ELSE Append(file.dir, file.name)

TocOf(file) ==
    [i \in 1..Len(file.headings) |->
        [title |-> file.headings[i], url |-> <<"#", file.headings[i]>>,
         depth |-> 2]]

\* The Page object the loader builds for one content file.
MakePage(file) ==
    [url |-> <<"docs">> \o FileSlugs(file),
     slugs |-> FileSlugs(file),
     data |-> [title |-> file.title,
               description |-> file.description,
               toc |-> TocOf(file),
               body |-> <<"MDXContent", file.dir, file.name>>]]

getPages(files) == {MakePage(f) : f \in files}

\* source.getPage(slugs?): an absent slugs argument is the empty sequence.
getPage(files, slugs) ==
    LET wanted == IF slugs = Undefined THEN <<>> ELSE slugs.segments
        found == {p \in getPages(files) : p.slugs = wanted}
    IN IF found = {} THEN Undefined ELSE CHOOSE p \in found : TRUE

RECURSIVE ListOf(_)
ListOf(S) ==
    IF S = {} THEN <<>>
    ELSE LET x == CHOOSE y \in S : TRUE IN <<x>> \o ListOf(S \ {x})

\* source.generateParams(): one { slug } entry per page.
generateParams(files) ==
    LET pages == ListOf(getPages(files))
    IN [i \in 1..Len(pages) |-> [slug |-> pages[i].slugs]]

\* source.pageTree: the navigation nodes, one per page.
pageTree(files) ==
    {[name |-> p.data.title, url |-> p.url] : p \in getPages(files)}

\* ------------------------------------------------------------ page.tsx

\* Variant: the routes are enumerated from the file names, index included.
generateStaticParams_FileNames(files) ==
    LET list == ListOf(files)
    IN [i \in 1..Len(list) |-> [slug |-> Append(list[i].dir, list[i].name)]]

\* Variant: the root route is filtered out of the enumeration.
generateStaticParams_SkipRoot(files) ==
    SelectSeq(generateParams(files), LAMBDA p : p.slug # <<>>)

generateStaticParams(files) == generateParams(files)

LowerCase(segment) == IF segment = "API" THEN "api" ELSE segment

\* Variant: an empty or absent slug is looked up as ["index"].
LookupArg_IndexDefault(params) ==
    IF params.slug = Undefined \/ params.slug = Slug(<<>>)
    THEN Slug(<<"index">>) ELSE params.slug

\* Variant: an absent slug is looked up as ["index"] (params.slug ?? ["index"]).
LookupArg_Nullish(params) ==
    IF params.slug = Undefined THEN Slug(<<"index">>) ELSE params.slug

\* Variant: the segments are lower-cased before the lookup.
LookupArg_LowerCase(params) ==
    IF params.slug = Undefined THEN Undefined
    ELSE Slug([i \in 1..Len(params.slug.segments) |->
                 LowerCase(params.slug.segments[i])])

\* The argument the handlers pass to source.getPage.
LookupArg(params) == params.slug

\* The metadata object {}: no key at all.
EmptyMetadata == <<>>

\* Variant: no `if (!page) return {}`; page.data of undefined raises.
MetadataHandler_NoGuard(files, params) ==
    LET page == getPage(files, LookupArg(params))
    IN IF page = Undefined
       THEN [page |-> page, lookups |-> 1, outcome |-> "error",
             result |-> Undefined]
       ELSE [page |-> page, lookups |-> 1, outcome |-> "returned",
             result |-> [title |-> page.data.title,
                         description |-> page.data.description]]

\* Variant: a page without a description is treated like no page
\* (`if (!page || !page.data.description) return {}`).
MetadataHandler_RequireDescription(files, params) ==
    LET page == getPage(files, LookupArg(params))
    IN IF page = Undefined
       THEN [page |-> page, lookups |-> 1, outcome |-> "returned",
             result |-> EmptyMetadata]
       ELSE IF page.data.description = Undefined
       THEN [page |-> page, lookups |-> 1, outcome |-> "returned",
             result |-> EmptyMetadata]
       ELSE [page |-> page, lookups |-> 1, outcome |-> "returned",
             result |-> [title |-> page.data.title,
                         description |-> page.data.description]]

\* generateMetadata after its await: one lookup, {} when no page matches.
MetadataHandler(files, params) ==
    LET page == getPage(files, LookupArg(params))
    IN IF page = Undefined
       THEN [page |-> page, lookups |-> 1, outcome |-> "returned",
             result |-> EmptyMetadata]
       ELSE [page |-> page, lookups |-> 1, outcome |-> "returned",
             result |-> [title |-> page.data.title,
                         description |-> page.data.description]]

\* Variant: DocsPage is not handed the page's description.
RenderPage_NoDescription(page) ==
    [type |-> "DocsPage", footer |-> [enabled |-> FALSE], full |-> FALSE,
     toc |-> page.data.toc,
     title |-> page.data.title,
     description |-> Undefined,
     body |-> [content |-> page.data.body,
               components |-> "defaultMdxComponents"]]

\* Variant: the table of contents is taken from the root page when there is
\* one, whichever page is rendered.
RenderPage_RootToc(page) ==
    LET root == getPage(content, Undefined)
    IN [type |-> "DocsPage", footer |-> [enabled |-> FALSE], full |-> FALSE,
        toc |-> IF root = Undefined THEN page.data.toc ELSE root.data.toc,
        title |-> page.data.title,
        description |-> page.data.description,
        body |-> [content |-> page.data.body,
                  components |-> "defaultMdxComponents"]]

\* The element tree Page returns for a found page.
RenderPage(page) ==
    [type |-> "DocsPage", footer |-> [enabled |-> FALSE], full |-> FALSE,
     toc |-> page.data.toc,
     title |-> page.data.title,
     description |-> page.data.description,
     body |-> [content |-> page.data.body,
               components |-> "defaultMdxComponents"]]

\* Variant: no `if (!page) notFound()`; page.data of undefined raises.
PageHandler_NoGuard(files, params) ==
    LET page == getPage(files, LookupArg(params))
    IN IF page = Undefined
       THEN [page |-> page, lookups |-> 1, outcome |-> "error",
             result |-> Undefined]
       ELSE [page |-> page, lookups |-> 1, outcome |-> "rendered",
             result |-> RenderPage(page)]

\* Variant: an absent page is rendered as an empty document.
PageHandler_SilentEmpty(files, params) ==
    LET page == getPage(files, LookupArg(params))
    IN IF page = Undefined
       THEN [page |-> page, lookups |-> 1, outcome |-> "rendered",
             result |-> [type |-> "DocsPage"]]
       ELSE [page |-> page, lookups |-> 1, outcome |-> "rendered",
             result |-> RenderPage(page)]

\* Variant: an absent page is looked up a second time before giving up.
PageHandler_Retry(files, params) ==
    LET page == getPage(files, LookupArg(params))
    IN IF page = Undefined
       THEN [page |-> getPage(files, LookupArg(params)), lookups |-> 2,
             outcome |-> "notFound", result |-> Undefined]
       ELSE [page |-> page, lookups |-> 1, outcome |-> "rendered",
             result |-> RenderPage(page)]

\* Variant: the slug is kept in a module-level variable that the latest
\* invocation overwrites, and read back after the await.
PageHandler_SharedSlug(files, params) ==
    LET others == {q \in Requests :
                      req[q].pc = "awaiting" /\ req[q].slug # params.slug}
        slug == IF others = {} THEN params.slug
                ELSE req[CHOOSE q \in others : TRUE].slug
        page == getPage(files, slug)
    IN IF page = Undefined
       THEN [page |-> page, lookups |-> 1, outcome |-> "notFound",
             result |-> Undefined]
       ELSE [page |-> page, lookups |-> 1, outcome |-> "rendered",
             result |-> RenderPage(page)]

\* Variant: dynamicParams = false; a slug outside the enumerated parameters
\* is answered 404 without a lookup.
PageHandler_StaticOnly(files, params) ==
    LET segments == IF params.slug = Undefined THEN <<>>
                    ELSE params.slug.segments
        page == getPage(files, LookupArg(params))
    IN IF \A i \in 1..Len(staticParams) : staticParams[i].slug # segments
       THEN [page |-> Undefined, lookups |-> 0, outcome |-> "notFound",
             result |-> Undefined]
       ELSE IF page = Undefined
       THEN [page |-> page, lookups |-> 1, outcome |-> "notFound",
             result |-> Undefined]
       ELSE [page |-> page, lookups |-> 1, outcome |-> "rendered",
             result |-> RenderPage(page)]

\* Variant: the last page found is cached at module level and rendered when
\* a lookup misses.
PageHandler_LastRendered(files, params) ==
    LET page == getPage(files, LookupArg(params))
        cached == {q \in Requests :
                      req[q].pc = "done" /\ req[q].page # Undefined}
    IN IF page = Undefined /\ cached = {}
       THEN [page |-> page, lookups |-> 1, outcome |-> "notFound",
             result |-> Undefined]
       ELSE IF page = Undefined
       THEN [page |-> req[CHOOSE q \in cached : TRUE].page, lookups |-> 1,
             outcome |-> "rendered",
             result |-> RenderPage(req[CHOOSE q \in cached : TRUE].page)]
       ELSE [page |-> page, lookups |-> 1, outcome |-> "rendered",
             result |-> RenderPage(page)]

\* Page after its await: one lookup, notFound() throws when no page matches.
PageHandler(files, params) ==
    LET page == getPage(files, LookupArg(params))
    IN IF page = Undefined
       THEN [page |-> page, lookups |-> 1, outcome |-> "notFound",
             result |-> Undefined]
       ELSE [page |-> page, lookups |-> 1, outcome |-> "rendered",
             result |-> RenderPage(page)]

\* ------------------------------------------------------ mdx-components.tsx

\* The default export of fumadocs-ui/mdx: component name to component.
defaultMdxComponents ==
    [a |-> "fumadocs-ui/Link", pre |-> "fumadocs-ui/CodeBlock",
     Card |-> "fumadocs-ui/Card", Cards |-> "fumadocs-ui/Cards"]

\* The component names a caller overrides or adds, and what it maps them to;
\* "undefined" is a key that is present with the value undefined.
CallerKeys == {"a", "Card", "Widget"}

CallerValues == {"app/Link", "app/Widget", "undefined"}

\* The arguments of useMDXComponents: none, or any object over CallerKeys.
ComponentArgs ==
    {Undefined} \cup UNION {[K -> CallerValues] : K \in SUBSET CallerKeys}

\* Variant: the spreads are swapped; the defaults override the caller's.
useMDXComponents_DefaultsWin(components) ==
    LET given == IF components = Undefined THEN <<>> ELSE components
    IN [k \in DOMAIN defaultMdxComponents \cup DOMAIN given |->
          IF k \in DOMAIN defaultMdxComponents
          THEN defaultMdxComponents[k] ELSE given[k]]

\* { ...defaultMdxComponents, ...components }: spreading undefined adds no key.
useMDXComponents(components) ==
    LET given == IF components = Undefined THEN <<>> ELSE components
    IN [k \in DOMAIN defaultMdxComponents \cup DOMAIN given |->
          IF k \in DOMAIN given THEN given[k] ELSE defaultMdxComponents[k]]

\* ------------------------------------------------------------ layouts

\* Variant: DocsLayout is self-closed and the children are never placed.
Layout_NoChildren(files, children) ==
    [type |-> "DocsLayout",
     themeSwitch |-> [enabled |-> FALSE, mode |-> "light-dark"],
     tree |-> pageTree(files),
     children |-> Undefined]

\* Variant: the navigation is a tree written out in the layout, one link per
\* documentation file known when it was written.
Layout_StaticTree(files, children) ==
    [type |-> "DocsLayout",
     themeSwitch |-> [enabled |-> FALSE, mode |-> "light-dark"],
     tree |-> pageTree(ContentFiles),
     children |-> children]

\* docs/layout.tsx: DocsLayout around the children, with the source's tree.
Layout(files, children) ==
    [type |-> "DocsLayout",
     themeSwitch |-> [enabled |-> FALSE, mode |-> "light-dark"],
     tree |-> pageTree(files),
     children |-> children]

\* apps/web/app/layout.tsx: the site header and footer around every route.
RootLayout(children) ==
    [type |-> "body", header |-> "Header",
     main |-> children, footer |-> "Footer"]

NotFoundPage == [type |-> "not-found", status |-> 404]

\* What the framework sends for a finished Page invocation.
Response(files, run) ==
    IF run.outcome = "rendered"
    THEN RootLayout(Layout(files, run.result))
    ELSE IF run.outcome = "notFound"
    THEN RootLayout(NotFoundPage)
    ELSE [type |-> "error", status |-> 500]

\* ------------------------------------------------------------ state

Idle ==
    [pc |-> "idle", kind |-> "none", promise |-> "none", slug |-> Undefined,
     page |-> Undefined, lookups |-> 0, outcome |-> "none",
     result |-> Undefined, response |-> Undefined, path |-> Undefined]

\* The task graph when the web build starts: verification and the upstream
\* docs build have passed.
UpstreamDone ==
    [typeErrors |-> 0, lintWarnings |-> 0, checkTypes |-> "ok",
     lint |-> "ok", docs |-> "ok", web |-> "pending", accepted |-> FALSE]

\* useMDXComponents has not been called.
NoCall ==
    [pc |-> "none", components |-> Undefined, result |-> Undefined,
     again |-> Undefined]

\* The content directory as checked out: no file added or removed since.
NoEdits == [count |-> 0, op |-> "none", file |-> Undefined, rebuilt |-> TRUE]

Init ==
    /\ content \in SUBSET ContentFiles
    /\ phase = "build"
    /\ staticParams = <<>>
    /\ req = [r \in Requests |-> Idle]
    /\ invoked = 0
    /\ pipeline = UpstreamDone
    /\ edits = NoEdits
    /\ mdx = NoCall

\* Variant: the web build does not wait for the docs build (no ^build
\* dependency) and enumerates whatever content compiles.
Build_IgnoreUpstream ==
    /\ phase = "build"
    /\ staticParams' = generateStaticParams({f \in content : Parsable(f)})
    /\ phase' = "serve"
    /\ pipeline' = [pipeline EXCEPT !.web = "ok"]
    /\ UNCHANGED <<content, req, invoked, edits, mdx>>

\* Variant: the enumeration drains the source's page list as it walks it.
Build_Draining ==
    /\ phase = "build"
    /\ pipeline.docs = "ok"
    /\ staticParams' = generateStaticParams(content)
    /\ content' = {}
    /\ phase' = "serve"
    /\ pipeline' = [pipeline EXCEPT !.web = "ok"]
    /\ UNCHANGED <<req, invoked, edits, mdx>>

\* The build enumerates the routes once, before any request is served.
Build ==
    /\ phase = "build"
    /\ pipeline.docs = "ok"
    /\ staticParams' = generateStaticParams(content)
    /\ phase' = "serve"
    /\ pipeline' = [pipeline EXCEPT !.web = "ok"]
    /\ UNCHANGED <<content, req, invoked, edits, mdx>>

\* Variant: handlers are called while the routes are still being enumerated.
Invoke_AnyPhase(r, kind, slug) ==
    /\ req[r].pc = "idle"
    /\ invoked < MaxInvocations
    /\ req' = [req EXCEPT ![r] =
                 [Idle EXCEPT !.pc = "awaiting", !.kind = kind,
                              !.promise = "pending", !.slug = slug]]
    /\ invoked' = invoked + 1
    /\ UNCHANGED <<content, phase, staticParams, pipeline, edits, mdx>>

\* The framework calls a handler; the handler runs up to its await.
Invoke(r, kind, slug) ==
    /\ phase = "serve"
    /\ req[r].pc = "idle"
    /\ invoked < MaxInvocations
    /\ req' = [req EXCEPT ![r] =
                 [Idle EXCEPT !.pc = "awaiting", !.kind = kind,
                              !.promise = "pending", !.slug = slug]]
    /\ invoked' = invoked + 1
    /\ UNCHANGED <<content, phase, staticParams, pipeline, edits, mdx>>

\* The params promise of an invocation resolves.
ResolveParams(r) ==
    /\ req[r].pc = "awaiting"
    /\ req[r].promise = "pending"
    /\ req' = [req EXCEPT ![r].promise = "fulfilled"]
    /\ UNCHANGED <<content, phase, staticParams, invoked, pipeline, edits, mdx>>

\* Variant: Page waits for the content to appear instead of calling
\* notFound(); it resumes only once the lookup finds a page.
PageResume_WaitsForPage(r) ==
    /\ req[r].pc = "awaiting"
    /\ req[r].kind = "Page"
    /\ req[r].promise = "fulfilled"
    /\ getPage(content, req[r].slug) # Undefined
    /\ LET run == PageHandler(content, [slug |-> req[r].slug])
       IN req' = [req EXCEPT ![r] =
                    [@ EXCEPT !.pc = "done", !.page = run.page,
                              !.lookups = @ + run.lookups,
                              !.outcome = run.outcome,
                              !.result = run.result,
                              !.response = Response(content, run)]]
    /\ UNCHANGED <<content, phase, staticParams, invoked, pipeline, edits, mdx>>

\* Variant: no await; props.params.slug is read off the promise object, which
\* has no such property while it is pending.
PageResume_NoAwait(r) ==
    /\ req[r].pc = "awaiting"
    /\ req[r].kind = "Page"
    /\ LET slug == IF req[r].promise = "fulfilled"
                   THEN req[r].slug ELSE Undefined
           run == PageHandler(content, [slug |-> slug])
       IN req' = [req EXCEPT ![r] =
                    [@ EXCEPT !.pc = "done", !.page = run.page,
                              !.lookups = @ + run.lookups,
                              !.outcome = run.outcome,
                              !.result = run.result,
                              !.response = Response(content, run)]]
    /\ UNCHANGED <<content, phase, staticParams, invoked, pipeline, edits, mdx>>

\* Page resumes after `await props.params` and runs to its end.
PageResume(r) ==
    /\ req[r].pc = "awaiting"
    /\ req[r].kind = "Page"
    /\ req[r].promise = "fulfilled"
    /\ LET run == PageHandler(content, [slug |-> req[r].slug])
       IN req' = [req EXCEPT ![r] =
                    [@ EXCEPT !.pc = "done", !.page = run.page,
                              !.lookups = @ + run.lookups,
                              !.outcome = run.outcome,
                              !.result = run.result,
                              !.response = Response(content, run)]]
    /\ UNCHANGED <<content, phase, staticParams, invoked, pipeline, edits, mdx>>

\* Variant: generateMetadata writes a site suffix into page.data.title of the
\* source's page object before returning it.
MetadataResume_WritesTitle(r) ==
    /\ req[r].pc = "awaiting"
    /\ req[r].kind = "generateMetadata"
    /\ req[r].promise = "fulfilled"
    /\ LET run == MetadataHandler(content, [slug |-> req[r].slug])
       IN /\ req' = [req EXCEPT ![r] =
                       [@ EXCEPT !.pc = "done", !.page = run.page,
                                 !.lookups = @ + run.lookups,
                                 !.outcome = run.outcome,
                                 !.result = run.result]]
          /\ content' =
                {IF run.page # Undefined /\ FileSlugs(f) = run.page.slugs
                 THEN [f EXCEPT !.title = "Docs"] ELSE f : f \in content}
    /\ UNCHANGED <<phase, staticParams, invoked, pipeline, edits, mdx>>

\* generateMetadata resumes after `await props.params` and runs to its end.
MetadataResume(r) ==
    /\ req[r].pc = "awaiting"
    /\ req[r].kind = "generateMetadata"
    /\ req[r].promise = "fulfilled"
    /\ LET run == MetadataHandler(content, [slug |-> req[r].slug])
       IN req' = [req EXCEPT ![r] =
                    [@ EXCEPT !.pc = "done", !.page = run.page,
                              !.lookups = @ + run.lookups,
                              !.outcome = run.outcome,
                              !.result = run.result]]
    /\ UNCHANGED <<content, phase, staticParams, invoked, pipeline, edits, mdx>>

\* The framework has taken the result; the slot is free again.
Release(r) ==
    /\ req[r].pc = "done"
    /\ req' = [req EXCEPT ![r] = Idle]
    /\ UNCHANGED <<content, phase, staticParams, invoked, pipeline, edits, mdx>>

\* ------------------------------------------------------------ task graph

\* The content directories the task graph is followed with.
PipelineFiles == {IndexFile, ApiReferenceFile, MalformedFile}

\* A change before anything has run: its type errors and lint warnings.
InitPipeline ==
    /\ content \in SUBSET PipelineFiles
    /\ phase = "build"
    /\ staticParams = <<>>
    /\ req = [r \in Requests |-> Idle]
    /\ invoked = 0
    /\ edits = NoEdits
    /\ mdx = NoCall
    /\ pipeline \in [typeErrors : 0..MaxFindings, lintWarnings : 0..MaxFindings,
                      checkTypes : {"pending"}, lint : {"pending"},
                      docs : {"pending"}, web : {"pending"},
                      accepted : {FALSE}]

\* bun run check-types: any type error fails it.
CheckTypes ==
    /\ pipeline.checkTypes = "pending"
    /\ pipeline' = [pipeline EXCEPT !.checkTypes =
                       IF pipeline.typeErrors = 0 THEN "ok" ELSE "failed"]
    /\ UNCHANGED <<content, phase, staticParams, req, invoked, edits, mdx>>

\* Variant: lint without --max-warnings 0; warnings do not fail it.
Lint_WarningsTolerated ==
    /\ pipeline.lint = "pending"
    /\ pipeline' = [pipeline EXCEPT !.lint = "ok"]
    /\ UNCHANGED <<content, phase, staticParams, req, invoked, edits, mdx>>

\* bun lint --max-warnings 0: any warning fails it.
Lint ==
    /\ pipeline.lint = "pending"
    /\ pipeline' = [pipeline EXCEPT !.lint =
                       IF pipeline.lintWarnings = 0 THEN "ok" ELSE "failed"]
    /\ UNCHANGED <<content, phase, staticParams, req, invoked, edits, mdx>>

\* Variant: the docs build skips the files it cannot compile.
DocsBuild_SkipUnparsable ==
    /\ pipeline.docs = "pending"
    /\ pipeline' = [pipeline EXCEPT !.docs = "ok"]
    /\ UNCHANGED <<content, phase, staticParams, req, invoked, edits, mdx>>

\* docs:build: compiles every MDX file; one unparsable file fails it.
DocsBuild ==
    /\ pipeline.docs = "pending"
    /\ pipeline' = [pipeline EXCEPT !.docs =
                       IF \A f \in content : Parsable(f)
                       THEN "ok" ELSE "failed"]
    /\ UNCHANGED <<content, phase, staticParams, req, invoked, edits, mdx>>

\* web:build after a failed docs:build: it fails without running.
BuildFails ==
    /\ phase = "build"
    /\ pipeline.docs = "failed"
    /\ phase' = "failed"
    /\ pipeline' = [pipeline EXCEPT !.web = "failed"]
    /\ UNCHANGED <<content, staticParams, req, invoked, edits, mdx>>

\* The change is committed: only after every gate has passed.
Accept ==
    /\ ~pipeline.accepted
    /\ pipeline.checkTypes = "ok"
    /\ pipeline.lint = "ok"
    /\ pipeline.web = "ok"
    /\ pipeline' = [pipeline EXCEPT !.accepted = TRUE]
    /\ UNCHANGED <<content, phase, staticParams, req, invoked, edits, mdx>>

\* ------------------------------------------------------------ content edits

\* The files that are added to and removed from the content directory.
EditableFiles == {IndexFile, GettingStartedFile, ApiReferenceFile}

\* A first build of any content directory, no file edited yet.
InitRebuild ==
    /\ content \in SUBSET EditableFiles
    /\ phase = "build"
    /\ staticParams = <<>>
    /\ req = [r \in Requests |-> Idle]
    /\ invoked = 0
    /\ pipeline = UpstreamDone
    /\ edits = NoEdits
    /\ mdx = NoCall

\* An MDX file is added under content/docs; the source picks it up, the
\* enumerated parameters are those of the last build.
AddFile(f) ==
    /\ phase = "serve"
    /\ f \notin content
    /\ edits.count < MaxEdits
    /\ content' = content \cup {f}
    /\ edits' = [count |-> edits.count + 1, op |-> "add", file |-> f,
                 rebuilt |-> FALSE]
    /\ UNCHANGED <<phase, staticParams, req, invoked, pipeline, mdx>>

\* An MDX file is deleted from content/docs.
RemoveFile(f) ==
    /\ phase = "serve"
    /\ f \in content
    /\ edits.count < MaxEdits
    /\ content' = content \ {f}
    /\ edits' = [count |-> edits.count + 1, op |-> "remove", file |-> f,
                 rebuilt |-> FALSE]
    /\ UNCHANGED <<phase, staticParams, req, invoked, pipeline, mdx>>

\* Variant: the rebuild is answered from the build cache; the enumerated
\* parameters of the previous build are kept.
Rebuild_CachedParams ==
    /\ phase = "serve"
    /\ ~edits.rebuilt
    /\ \A r \in Requests : req[r].pc = "idle"
    /\ edits' = [edits EXCEPT !.rebuilt = TRUE]
    /\ UNCHANGED <<content, phase, staticParams, req, invoked, pipeline, mdx>>

\* bun run build after an edit: the server is stopped and the web build
\* starts again from the edited content.
Rebuild ==
    /\ phase = "serve"
    /\ ~edits.rebuilt
    /\ \A r \in Requests : req[r].pc = "idle"
    /\ phase' = "build"
    /\ staticParams' = <<>>
    /\ pipeline' = [pipeline EXCEPT !.web = "pending"]
    /\ edits' = [edits EXCEPT !.rebuilt = TRUE]
    /\ UNCHANGED <<content, req, invoked, mdx>>

\* ------------------------------------------------------ component merging

\* One call of useMDXComponents is about to be made, with any argument.
InitMdx ==
    /\ content = {}
    /\ phase = "build"
    /\ staticParams = <<>>
    /\ req = [r \in Requests |-> Idle]
    /\ invoked = 0
    /\ pipeline = UpstreamDone
    /\ edits = NoEdits
    /\ mdx \in {[NoCall EXCEPT !.pc = "ready", !.components = c] :
                   c \in ComponentArgs}

\* The MDX runtime calls useMDXComponents(components).
Apply ==
    /\ mdx.pc = "ready"
    /\ mdx' = [mdx EXCEPT !.pc = "applied",
                          !.result = useMDXComponents(mdx.components)]
    /\ UNCHANGED <<content, phase, staticParams, req, invoked, pipeline,
                   edits>>

\* The result is passed to useMDXComponents once more.
Reapply ==
    /\ mdx.pc = "applied"
    /\ mdx' = [mdx EXCEPT !.pc = "reapplied",
                          !.again = useMDXComponents(mdx.result)]
    /\ UNCHANGED <<content, phase, staticParams, req, invoked, pipeline,
                   edits>>

NextMdx == Apply \/ Reapply

SpecMdx == InitMdx /\ [][NextMdx]_vars

\* ------------------------------------------------------------ routing

\* A URL path of a request, as its segments: /docs/api/reference is
\* <<"docs", "api", "reference">>.
Url(segments) == [path |-> segments]

\* The URL paths requested of apps/web.
UrlPaths ==
    {<<"docs">>, <<"docs", "getting-started">>, <<"docs", "api", "reference">>,
     <<"docs", "missing">>, <<>>, <<"about">>, <<"test-styles">>,
     <<"about", "docs">>}

\* Variant: a required catch-all, [...slug]: /docs itself matches no route.
RouteMatch_Required(path) ==
    IF Len(path) >= 2 /\ Head(path) = "docs"
    THEN [handler |-> "docs", slug |-> Slug(Tail(path))]
    ELSE [handler |-> "web", slug |-> Undefined]

\* The app router on app/docs/[[...slug]]: the optional catch-all takes every
\* path under /docs, the segments after it as slug, none as undefined.
RouteMatch(path) ==
    IF Len(path) >= 1 /\ Head(path) = "docs"
    THEN [handler |-> "docs",
          slug |-> IF Tail(path) = <<>> THEN Undefined ELSE Slug(Tail(path))]
    ELSE [handler |-> "web", slug |-> Undefined]

\* A request for a URL path: dispatched to the docs handlers, which run up to
\* their await, or handled by another route of the web application.
Request(r, kind, path) ==
    /\ phase = "serve"
    /\ req[r].pc = "idle"
    /\ invoked < MaxInvocations
    /\ LET match == RouteMatch(path)
       IN req' = [req EXCEPT ![r] =
                    IF match.handler = "docs"
                    THEN [Idle EXCEPT !.pc = "awaiting", !.kind = kind,
                                      !.promise = "pending",
                                      !.slug = match.slug,
                                      !.path = Url(path)]
                    ELSE [Idle EXCEPT !.pc = "done", !.kind = "web",
                                      !.outcome = "elsewhere",
                                      !.path = Url(path)]]
    /\ invoked' = invoked + 1
    /\ UNCHANGED <<content, phase, staticParams, pipeline, edits, mdx>>

Next ==
    \/ Build
    \/ \E r \in Requests, kind \in {"Page", "generateMetadata"},
          slug \in RequestSlugs : Invoke(r, kind, slug)
    \/ \E r \in Requests : ResolveParams(r)
    \/ \E r \in Requests : PageResume(r)
    \/ \E r \in Requests : MetadataResume(r)
    \/ \E r \in Requests : Release(r)

Spec == Init /\ [][Next]_vars

\* The server with the event loop's guarantee: the continuation of a handler
\* whose params promise has resolved is eventually run.
SpecLive ==
    /\ Init
    /\ [][Next]_vars
    /\ \A r \in Requests : WF_vars(PageResume(r))

\* The server behind the app router: requests arrive as URL paths.
NextRouting ==
    \/ Build
    \/ \E r \in Requests, kind \in {"Page", "generateMetadata"},
          path \in UrlPaths : Request(r, kind, path)
    \/ \E r \in Requests : ResolveParams(r)
    \/ \E r \in Requests : PageResume(r)
    \/ \E r \in Requests : MetadataResume(r)
    \/ \E r \in Requests : Release(r)

SpecRouting == Init /\ [][NextRouting]_vars

\* The verification gates and the two builds, then the built site serving.
NextPipeline ==
    \/ CheckTypes
    \/ Lint
    \/ DocsBuild
    \/ Build
    \/ BuildFails
    \/ Accept
    \/ \E slug \in {Undefined, Slug(<<"api", "missing">>)} :
          Invoke("r1", "Page", slug)
    \/ ResolveParams("r1")
    \/ PageResume("r1")
    \/ Release("r1")

SpecPipeline == InitPipeline /\ [][NextPipeline]_vars

\* The slugs requested while content files come and go.
EditSlugs ==
    {Undefined, Slug(<<"getting-started">>), Slug(<<"api", "reference">>),
     Slug(<<"api", "missing">>)}

\* Builds, edits of the content directory, rebuilds, and Page requests.
NextRebuild ==
    \/ Build
    \/ \E f \in EditableFiles : AddFile(f)
    \/ \E f \in EditableFiles : RemoveFile(f)
    \/ Rebuild
    \/ \E slug \in EditSlugs : Invoke("r1", "Page", slug)
    \/ ResolveParams("r1")
    \/ PageResume("r1")
    \/ Release("r1")

SpecRebuild == InitRebuild /\ [][NextRebuild]_vars

\* ------------------------------------------------------------ properties

Done(r) == req[r].pc = "done"

DonePage(r) == Done(r) /\ req[r].kind = "Page"

DoneMetadata(r) == Done(r) /\ req[r].kind = "generateMetadata"

\* The segment sequence a slug value stands for.
SegmentsOf(slug) == IF slug = Undefined THEN <<>> ELSE slug.segments

\* The slug sequences the build enumerated.
ParamSlugs == {staticParams[i].slug : i \in 1..Len(staticParams)}

\* The segment sequences that are pages of the content set.
PageSlugs == {FileSlugs(f) : f \in content}

\* C1: every slug sequence the build enumerated is one getPage finds a page
\* for, and a Page invocation for it renders that page, never not-found.
EnumeratedRoutesRender ==
    phase = "serve" =>
        /\ \A i \in 1..Len(staticParams) :
              /\ getPage(content, Slug(staticParams[i].slug)) # Undefined
              /\ staticParams[i].slug \in PageSlugs
        /\ \A r \in Requests :
              (DonePage(r) /\ SegmentsOf(req[r].slug) \in ParamSlugs) =>
                  /\ req[r].outcome = "rendered"
                  /\ req[r].page # Undefined
                  /\ req[r].page.slugs = SegmentsOf(req[r].slug)

EnumeratedRouteRendered ==
    \E r \in Requests :
        /\ DonePage(r)
        /\ req[r].slug = Slug(<<"api", "reference">>)
        /\ <<"api", "reference">> \in ParamSlugs
        /\ req[r].outcome = "rendered"

\* C2: a Page invocation for a slug sequence the build did not enumerate gets
\* no page and answers with the standard not-found response, and not-found is
\* signalled for no other reason.
UnenumeratedRoutesNotFound ==
    \A r \in Requests :
        DonePage(r) =>
            /\ SegmentsOf(req[r].slug) \notin ParamSlugs =>
                  /\ req[r].page = Undefined
                  /\ req[r].outcome = "notFound"
                  /\ req[r].response = RootLayout(NotFoundPage)
            /\ req[r].outcome # "rendered" =>
                  /\ req[r].outcome = "notFound"
                  /\ SegmentsOf(req[r].slug) \notin ParamSlugs

UnenumeratedRouteNotFound ==
    \E r \in Requests :
        /\ DonePage(r)
        /\ req[r].slug = Slug(<<"api", "missing">>)
        /\ ParamSlugs # {}
        /\ req[r].outcome = "notFound"

\* C3: Page never raises for a found page, and when the lookup returned no
\* page the outcome is the not-found response, never a rendered document.
NotFoundNeverRendersDocument ==
    \A r \in Requests :
        DonePage(r) =>
            /\ req[r].outcome # "error"
            /\ req[r].page # Undefined =>
                  /\ req[r].outcome = "rendered"
                  /\ req[r].result = RenderPage(req[r].page)
            /\ req[r].page = Undefined =>
                  /\ req[r].outcome = "notFound"
                  /\ req[r].result = Undefined
                  /\ req[r].response = RootLayout(NotFoundPage)

FoundAndNotFoundBothServed ==
    \E r1, r2 \in Requests :
        /\ DonePage(r1) /\ req[r1].page # Undefined
        /\ req[r1].outcome = "rendered"
        /\ DonePage(r2) /\ req[r2].page = Undefined
        /\ req[r2].outcome = "notFound"

\* C4: a Page invocation ends in one of exactly two outcomes, rendered or
\* not-found, decided by exactly one call to source.getPage: none before the
\* handler resumes, one when it is done, never a second.
PageOutcomeDecidedByOneLookup ==
    \A r \in Requests :
        /\ req[r].pc \in {"idle", "awaiting"} =>
              req[r].lookups = 0 /\ req[r].outcome = "none"
        /\ DonePage(r) =>
              /\ req[r].lookups = 1
              /\ req[r].outcome \in {"rendered", "notFound"}
              /\ req[r].outcome = "rendered" <=> req[r].page # Undefined

BothOutcomesAfterOneLookup ==
    \E r1, r2 \in Requests :
        /\ DonePage(r1) /\ req[r1].outcome = "rendered" /\ req[r1].lookups = 1
        /\ DonePage(r2) /\ req[r2].outcome = "notFound" /\ req[r2].lookups = 1
        /\ req[r2].slug = Slug(<<"missing">>)

\* The root content entries: index at the top of the content directory.
RootEntries == {f \in content : f.dir = <<>> /\ f.name = "index"}

\* C5: a lookup of the empty sequence finds a page if and only if the content
\* set has a root entry, and the page found is the one built from that entry.
RootPageIffRootEntry ==
    \A r \in Requests :
        (Done(r) /\ req[r].slug = Slug(<<>>)) =>
            /\ req[r].page # Undefined <=> RootEntries # {}
            /\ req[r].page # Undefined =>
                  /\ req[r].page.slugs = <<>>
                  /\ \E f \in RootEntries : req[r].page = MakePage(f)

RootLookedUpWithAndWithoutEntry ==
    \/ \E r \in Requests :
          /\ DonePage(r) /\ req[r].slug = Slug(<<>>)
          /\ RootEntries # {} /\ req[r].outcome = "rendered"
          /\ req[r].result.title = "Documentation"
    \/ \E r \in Requests :
          /\ DonePage(r) /\ req[r].slug = Slug(<<>>)
          /\ RootEntries = {} /\ content # {} /\ req[r].outcome = "notFound"

\* C6: an invocation whose slug is undefined gets what getPage([]) gives, and
\* ends, in Page and in generateMetadata alike, as an invocation of the same
\* handler with slug [] does.
UndefinedSlugIsRoot ==
    /\ \A r \in Requests :
          (Done(r) /\ req[r].slug = Undefined) =>
              /\ req[r].page = getPage(content, Slug(<<>>))
              /\ req[r].page # Undefined <=> RootEntries # {}
    /\ \A r1, r2 \in Requests :
          ( /\ Done(r1) /\ Done(r2) /\ req[r1].kind = req[r2].kind
            /\ req[r1].slug = Undefined /\ req[r2].slug = Slug(<<>>) ) =>
              /\ req[r1].page = req[r2].page
              /\ req[r1].outcome = req[r2].outcome
              /\ req[r1].result = req[r2].result
              /\ req[r1].response = req[r2].response

UndefinedAndEmptySlugBothServed ==
    \E r1, r2 \in Requests :
        /\ DonePage(r1) /\ req[r1].slug = Undefined
        /\ DonePage(r2) /\ req[r2].slug = Slug(<<>>)
        /\ req[r1].outcome = "rendered"

\* C7: a lookup finds a page only if the requested sequence, whole and in its
\* own letter case, is the slug sequence of a page, and the page found is that
\* page; a prefix, an extension or a case variant is never served another page.
LookupMatchesWholeSequence ==
    \A r \in Requests :
        (Done(r) /\ req[r].slug # Undefined) =>
            /\ req[r].page # Undefined <=> req[r].slug.segments \in PageSlugs
            /\ req[r].page # Undefined =>
                  /\ req[r].page.slugs = req[r].slug.segments
                  /\ req[r].page.url = <<"docs">> \o req[r].slug.segments

CaseVariantAndPrefixNotFound ==
    \E r1, r2 \in Requests :
        /\ ApiReferenceFile \in content
        /\ ApiIndexFile \notin content
        /\ UpperApiReferenceFile \notin content
        /\ DonePage(r1) /\ req[r1].slug = Slug(<<"API", "reference">>)
        /\ req[r1].outcome = "notFound"
        /\ DonePage(r2) /\ req[r2].slug = Slug(<<"api">>)
        /\ req[r2].outcome = "notFound"

\* The content of the scenario: pages at [], [getting-started], [api, reference].
ScenarioContent == {IndexFile, GettingStartedFile, ApiReferenceFile}

\* C8: with pages at exactly [], [getting-started] and [api, reference] the
\* build enumerates exactly these three slug sequences, each once, and a
\* lookup of [api, missing] finds no page.
ScenarioEnumeration ==
    (content = ScenarioContent /\ phase = "serve") =>
        /\ ParamSlugs = {<<>>, <<"getting-started">>, <<"api", "reference">>}
        /\ Len(staticParams) = Cardinality(ParamSlugs)
        /\ \A r \in Requests :
              (Done(r) /\ req[r].slug = Slug(<<"api", "missing">>)) =>
                  req[r].page = Undefined

ScenarioMissingLookedUp ==
    /\ content = ScenarioContent
    /\ phase = "serve"
    /\ \E r \in Requests :
          /\ DonePage(r) /\ req[r].slug = Slug(<<"api", "missing">>)
          /\ req[r].outcome = "notFound"

DocsPrefixRoutesToHandler ==
    \A r \in Requests :
        req[r].path # Undefined =>
            LET p == req[r].path.path
                under == Len(p) >= 1 /\ p[1] = "docs"
            IN /\ req[r].kind \in {"Page", "generateMetadata"} <=> under
               /\ (under /\ Len(p) = 1) => req[r].slug = Undefined
               /\ (under /\ Len(p) > 1) =>
                     req[r].slug = Slug(SubSeq(p, 2, Len(p)))
               /\ ~under =>
                     /\ req[r].kind = "web"
                     /\ req[r].lookups = 0
                     /\ req[r].page = Undefined
                     /\ req[r].outcome = "elsewhere"

NestedDocsPathServedOtherPathElsewhere ==
    \E r1, r2 \in Requests :
        /\ DonePage(r1)
        /\ req[r1].path = Url(<<"docs", "api", "reference">>)
        /\ req[r1].slug = Slug(<<"api", "reference">>)
        /\ req[r1].outcome = "rendered"
        /\ req[r2].path = Url(<<"about", "docs">>)
        /\ req[r2].outcome = "elsewhere"

\* What an invocation yields when it runs alone: decided by its own slug and
\* the content set.
OwnOutcome(r) ==
    LET own == {f \in content : FileSlugs(f) = SegmentsOf(req[r].slug)}
    IN /\ req[r].page = Undefined <=> own = {}
       /\ req[r].page # Undefined =>
             /\ \E f \in own : req[r].page = MakePage(f)
             /\ DonePage(r) =>
                   /\ req[r].outcome = "rendered"
                   /\ req[r].result.title = req[r].page.data.title
                   /\ req[r].result.body.content = req[r].page.data.body
             /\ DoneMetadata(r) =>
                   req[r].result.title = req[r].page.data.title
       /\ req[r].page = Undefined =>
             /\ DonePage(r) => req[r].outcome = "notFound"
             /\ DoneMetadata(r) => req[r].result = EmptyMetadata

\* A step of one invocation leaves every other invocation and the content
\* set as they were.
StepTouchesOneInvocation ==
    \A r \in Requests :
        req'[r] # req[r] =>
            /\ \A q \in Requests \ {r} : req'[q] = req[q]
            /\ content' = content
            /\ staticParams' = staticParams

\* C12: under every interleaving of Page and generateMetadata invocations,
\* each finished invocation has the outcome it has when run alone, fixed by
\* its own slug and the content set, and no step of one invocation changes
\* another invocation or the content.
RequestsShareNoState ==
    /\ [](\A r \in Requests : Done(r) => OwnOutcome(r))
    /\ [][StepTouchesOneInvocation]_vars

InterleavedInvocationsBothServed ==
    \E r1, r2 \in Requests :
        /\ DonePage(r1) /\ req[r1].slug = Slug(<<"getting-started">>)
        /\ req[r1].outcome = "rendered"
        /\ req[r1].result.title = "Getting Started"
        /\ DoneMetadata(r2) /\ req[r2].slug = Slug(<<"api", "reference">>)
        /\ req[r2].page # Undefined
        /\ req[r2].result.title = "API Reference"

EnumerationHasNoEffect ==
    /\ [](phase = "serve" =>
             /\ staticParams = generateStaticParams(content)
             /\ ParamSlugs = PageSlugs
             /\ Len(staticParams) = Cardinality(content))
    /\ [][(phase = "build" /\ phase' = "serve") =>
             /\ content' = content
             /\ req' = req
             /\ invoked' = invoked]_vars

EnumeratedThenLookedUp ==
    \E r \in Requests :
        /\ phase = "serve"
        /\ Len(staticParams) = Cardinality(ContentFiles)
        /\ DoneMetadata(r)
        /\ req[r].page # Undefined

Malformed == {f \in content : ~Parsable(f)}

\* C15: with an unparsable content file the build aborts as a whole: nothing
\* is enumerated, neither build succeeds, nothing is served or accepted, and
\* a failed build stays failed (no retry, no partial success).
MalformedContentAbortsBuild ==
    /\ [](Malformed # {} =>
             /\ phase # "serve"
             /\ staticParams = <<>>
             /\ pipeline.docs # "ok"
             /\ pipeline.web # "ok"
             /\ ~pipeline.accepted
             /\ \A r \in Requests : req[r] = Idle)
    /\ [][ /\ pipeline.docs = "failed" => pipeline'.docs = "failed"
           /\ phase = "failed" => phase' = "failed" /\ UNCHANGED staticParams
         ]_vars

BuildAbortedOnMalformedFile ==
    /\ MalformedFile \in content
    /\ IndexFile \in content
    /\ pipeline.docs = "failed"
    /\ pipeline.web = "failed"
    /\ phase = "failed"

\* C16: the web build starts only after the docs build has completed, succeeds
\* only if the docs build succeeded, and fails when the docs build failed.
DocsBuildBeforeWebBuild ==
    /\ [](/\ pipeline.web = "ok" => pipeline.docs = "ok"
          /\ phase = "serve" => pipeline.docs = "ok" /\ pipeline.web = "ok"
          /\ pipeline.docs = "pending" => pipeline.web = "pending")
    /\ [][pipeline'.web # pipeline.web =>
             /\ pipeline.docs # "pending"
             /\ pipeline'.docs = pipeline.docs
             /\ pipeline.docs = "failed" => pipeline'.web = "failed"
             /\ pipeline.docs = "ok" => pipeline'.web = "ok"]_vars

WebBuiltAfterDocs ==
    /\ pipeline.docs = "ok"
    /\ pipeline.web = "ok"
    /\ phase = "serve"
    /\ Len(staticParams) = 2

\* C19: a change is accepted only with zero type errors, zero lint warnings
\* and a completed build; one type error or one lint warning fails its gate
\* and the change is never accepted.
ZeroToleranceGates ==
    /\ pipeline.accepted =>
          /\ pipeline.typeErrors = 0
          /\ pipeline.lintWarnings = 0
          /\ pipeline.docs = "ok"
          /\ pipeline.web = "ok"
          /\ phase = "serve"
    /\ pipeline.typeErrors > 0 => pipeline.checkTypes # "ok"
    /\ pipeline.lintWarnings > 0 => pipeline.lint # "ok"

ChangeAccepted ==
    /\ pipeline.accepted
    /\ pipeline.checkTypes = "ok"
    /\ pipeline.lint = "ok"
    /\ content = {IndexFile, ApiReferenceFile}

\* The Page invocation in slot r runs its lookup in this step.
PageLooksUp(r) ==
    /\ req[r].pc = "awaiting"
    /\ req[r].kind = "Page"
    /\ req'[r].pc = "done"

\* The content directory has been built since its last edit and is served.
BuiltAndServed == phase = "serve" /\ edits.rebuilt

\* C17: after every sequence of added and removed files, once rebuilt, the
\* enumerated parameters are exactly the existing pages: an added file's
\* route is enumerated, a removed file's route is not, and a request for the
\* removed route is answered 404.
ParamsFollowContentAfterRebuild ==
    /\ [](BuiltAndServed =>
             /\ ParamSlugs = PageSlugs
             /\ Len(staticParams) = Cardinality(content)
             /\ edits.op = "add" => FileSlugs(edits.file) \in ParamSlugs
             /\ edits.op = "remove" => FileSlugs(edits.file) \notin ParamSlugs)
    /\ [][\A r \in Requests :
             ( /\ PageLooksUp(r)
               /\ BuiltAndServed
               /\ edits.op = "remove"
               /\ SegmentsOf(req[r].slug) = FileSlugs(edits.file) )
             => /\ req'[r].outcome = "notFound"
                /\ req'[r].response = RootLayout(NotFoundPage)]_vars

AddedAndRemovedThenRebuilt ==
    /\ BuiltAndServed
    /\ edits.count = 2
    /\ edits.op = "remove"
    /\ content # {}
    /\ DonePage("r1")
    /\ SegmentsOf(req["r1"].slug) = FileSlugs(edits.file)
    /\ req["r1"].outcome = "notFound"

\* C18: a Page request for a route outside the enumerated parameters is
\* still handled: one lookup at request time, the page when the content
\* exists at that time and 404 when it does not.
UnenumeratedRouteLookedUpOnDemand ==
    [][\A r \in Requests :
          ( /\ PageLooksUp(r)
            /\ SegmentsOf(req[r].slug) \notin ParamSlugs )
          => /\ req'[r].lookups = 1
             /\ req'[r].page = getPage(content, req[r].slug)
             /\ req'[r].outcome = "rendered"
                   <=> SegmentsOf(req[r].slug) \in PageSlugs
             /\ req'[r].outcome = "notFound"
                   <=> SegmentsOf(req[r].slug) \notin PageSlugs]_vars

UnenumeratedRouteRenderedOnDemand ==
    /\ phase = "serve"
    /\ ~edits.rebuilt
    /\ edits.op = "add"
    /\ DonePage("r1")
    /\ SegmentsOf(req["r1"].slug) = FileSlugs(edits.file)
    /\ SegmentsOf(req["r1"].slug) \notin ParamSlugs
    /\ req["r1"].outcome = "rendered"
    /\ req["r1"].result.title = edits.file.title

\* C20: for one slug and one content set, generateMetadata returns the empty
\* metadata exactly when Page signals not-found, and for a found page its
\* title and description are the ones Page renders.
MetadataAgreesWithPage ==
    \A m \in Requests, p \in Requests :
        ( /\ DoneMetadata(m)
          /\ DonePage(p)
          /\ SegmentsOf(req[m].slug) = SegmentsOf(req[p].slug) )
        => /\ req[m].result = EmptyMetadata <=> req[p].outcome = "notFound"
           /\ req[m].result # EmptyMetadata <=> req[p].outcome = "rendered"
           /\ req[p].outcome = "rendered" =>
                 /\ req[m].result.title = req[p].result.title
                 /\ req[m].result.description = req[p].result.description

MetadataAndPageForSameSlug ==
    /\ DoneMetadata("r1")
    /\ DonePage("r2")
    /\ req["r1"].slug = req["r2"].slug
    /\ req["r2"].outcome = "rendered"
    /\ req["r1"].result.title = req["r2"].result.title
    /\ req["r1"].result.description = req["r2"].result.description
    /\ req["r1"].result.description # Undefined

GivenKeys ==
    IF mdx.components = Undefined THEN {} ELSE DOMAIN mdx.components

\* C29: the result of useMDXComponents(components) holds the caller's value
\* for every key of components and the default for every other key, equals
\* the defaults when no argument is given, and is unchanged by a second
\* application.
CallerOverridesDefaults ==
    mdx.pc \in {"applied", "reapplied"} =>
        /\ DOMAIN mdx.result = DOMAIN defaultMdxComponents \cup GivenKeys
        /\ \A k \in GivenKeys : mdx.result[k] = mdx.components[k]
        /\ \A k \in DOMAIN defaultMdxComponents \ GivenKeys :
              mdx.result[k] = defaultMdxComponents[k]
        /\ mdx.components = Undefined => mdx.result = defaultMdxComponents
        /\ mdx.pc = "reapplied" => mdx.again = mdx.result

OverrideAndAdditionReapplied ==
    /\ mdx.pc = "reapplied"
    /\ GivenKeys = {"a", "Widget"}
    /\ mdx.result["a"] = "app/Link"
    /\ mdx.result["Widget"] = "app/Widget"
    /\ mdx.result["Card"] = "fumadocs-ui/Card"
    /\ mdx.again = mdx.result

\* C21: in generateMetadata and in Page, source.getPage is not called before
\* the params promise has resolved, and it is called with exactly the slug
\* the promise resolved to.
ParamsAwaitedBeforeLookup ==
    /\ [](\A r \in Requests :
             req[r].promise # "fulfilled" =>
                /\ req[r].lookups = 0
                /\ req[r].page = Undefined
                /\ req[r].outcome = "none")
    /\ [][\A r \in Requests :
             req'[r].lookups > req[r].lookups =>
                /\ req[r].promise = "fulfilled"
                /\ req'[r].lookups = req[r].lookups + 1
                /\ req'[r].slug = req[r].slug
                /\ req'[r].page = getPage(content, req[r].slug)]_vars

BothHandlersLookedUpResolvedSlug ==
    /\ DonePage("r1")
    /\ DoneMetadata("r2")
    /\ \A r \in Requests :
          /\ req[r].promise = "fulfilled"
          /\ req[r].lookups = 1
          /\ req[r].slug = Slug(<<"api", "reference">>)
          /\ req[r].page # Undefined
          /\ req[r].page.slugs = <<"api", "reference">>

\* C22: the handlers only look pages up: over every step of a Page or
\* generateMetadata invocation, found or not, the page objects, the page
\* tree and the result of generateStaticParams stay as they were.
HandlersNeverMutatePages ==
    /\ [](/\ phase = "serve" => staticParams = generateStaticParams(content)
          /\ \A r \in Requests :
                req[r].page # Undefined => req[r].page \in getPages(content))
    /\ [][(\E r \in Requests : req'[r] # req[r]) =>
             /\ content' = content
             /\ getPages(content') = getPages(content)
             /\ pageTree(content') = pageTree(content)
             /\ generateStaticParams(content') = generateStaticParams(content)
             /\ staticParams' = staticParams]_vars

FoundAndNotFoundLookupsLeftPagesAlone ==
    /\ invoked = MaxInvocations
    /\ DoneMetadata("r1")
    /\ req["r1"].page # Undefined
    /\ DonePage("r2")
    /\ req["r2"].outcome = "notFound"
    /\ Cardinality(getPages(content)) = 3
    /\ staticParams = generateStaticParams(content)

\* C23: what Page renders for a found page (title, description, table of
\* contents, body) is taken from the one page getPage returns for the
\* requested slug and from no other page, also while another request for a
\* different slug is in progress.
RenderedFieldsFromLookedUpPage ==
    \A r \in Requests :
        (DonePage(r) /\ req[r].outcome = "rendered") =>
            LET page == getPage(content, req[r].slug)
            IN /\ page # Undefined
               /\ req[r].page = page
               /\ req[r].lookups = 1
               /\ page.slugs = SegmentsOf(req[r].slug)
               /\ req[r].result.title = page.data.title
               /\ req[r].result.description = page.data.description
               /\ req[r].result.toc = page.data.toc
               /\ req[r].result.body.content = page.data.body
               /\ \A other \in getPages(content) \ {page} :
                     req[r].result.body.content # other.data.body

TwoDifferentPagesRenderedTogether ==
    /\ DonePage("r1")
    /\ DonePage("r2")
    /\ req["r1"].outcome = "rendered"
    /\ req["r2"].outcome = "rendered"
    /\ req["r1"].slug = Undefined
    /\ req["r2"].slug = Slug(<<"getting-started">>)
    /\ req["r1"].result.toc # req["r2"].result.toc
    /\ req["r1"].result.title # req["r2"].result.title

\* The page the source holds for the slug of slot r has no description.
LooksUpUndescribedPage(r) ==
    LET page == getPage(content, req[r].slug)
    IN page # Undefined /\ page.data.description = Undefined

\* C24: a found page without a description is a found page: Page renders it
\* (no error, no not-found) and generateMetadata returns its title with the
\* description absent, not the empty metadata.
UndescribedPageIsFound ==
    \A r \in Requests :
        (Done(r) /\ LooksUpUndescribedPage(r)) =>
            /\ DonePage(r) =>
                  /\ req[r].outcome = "rendered"
                  /\ req[r].result.title = req[r].page.data.title
                  /\ req[r].result.description = Undefined
                  /\ req[r].response = RootLayout(Layout(content, req[r].result))
            /\ DoneMetadata(r) =>
                  /\ req[r].outcome = "returned"
                  /\ req[r].result # EmptyMetadata
                  /\ req[r].result.title = req[r].page.data.title
                  /\ req[r].result.description = Undefined

UndescribedPageRenderedAndDescribed ==
    /\ DonePage("r1")
    /\ DoneMetadata("r2")
    /\ req["r1"].slug = Slug(<<"getting-started">>)
    /\ req["r2"].slug = Slug(<<"getting-started">>)
    /\ LooksUpUndescribedPage("r1")
    /\ req["r1"].outcome = "rendered"
    /\ req["r2"].result.title = "Getting Started"

\* The entries of the enumerated parameters whose slug is the empty array.
EmptySlugEntries == {i \in 1..Len(staticParams) : staticParams[i].slug = <<>>}

\* C25: every slug returned by generateStaticParams is an array of segments
\* none of which is the empty string, and the empty array occurs only as the
\* slug of the root page.
EnumeratedSlugsWellFormed ==
    phase = "serve" =>
        /\ \A i \in 1..Len(staticParams) :
              /\ staticParams[i].slug \in Seq({"getting-started", "api", "API",
                                               "reference"})
              /\ \A j \in 1..Len(staticParams[i].slug) :
                    staticParams[i].slug[j] # ""
        /\ Cardinality(EmptySlugEntries) <= 1
        /\ EmptySlugEntries # {} =>
              /\ getPage(content, Slug(<<>>)) # Undefined
              /\ getPage(content, Slug(<<>>)).url = <<"docs">>
              /\ IndexFile \in content
        /\ EmptySlugEntries = {} => IndexFile \notin content

RootAndNestedIndexEnumerated ==
    /\ phase = "serve"
    /\ {IndexFile, ApiIndexFile, ApiReferenceFile} \subseteq content
    /\ EmptySlugEntries # {}
    /\ <<"api">> \in ParamSlugs
    /\ <<"api", "reference">> \in ParamSlugs

\* The Page invocation in slot r has its params and has not resumed yet.
PageResolved(r) ==
    /\ req[r].pc = "awaiting"
    /\ req[r].kind = "Page"
    /\ req[r].promise = "fulfilled"

\* C26: every Page invocation whose params promise has resolved ends, in one
\* step and with one lookup, in exactly one of rendered and not-found, and
\* its outcome does not change afterwards.
PageInvocationTerminates ==
    /\ \A r \in Requests :
          PageResolved(r) ~>
             (DonePage(r) /\ req[r].outcome \in {"rendered", "notFound"})
    /\ [](\A r \in Requests :
             DonePage(r) =>
                /\ req[r].outcome \in {"rendered", "notFound"}
                /\ req[r].outcome = "rendered" <=> req[r].page # Undefined
                /\ req[r].lookups = 1)
    /\ [][\A r \in Requests :
             /\ (PageResolved(r) /\ req'[r] # req[r]) =>
                   req'[r].pc = "done" /\ req'[r].kind = "Page"
             /\ (DonePage(r) /\ req'[r].pc = "done") =>
                   req'[r].outcome = req[r].outcome]_vars

BothTerminalOutcomesReached ==
    /\ invoked = 2
    /\ DonePage("r1")
    /\ DonePage("r2")
    /\ req["r1"].outcome = "rendered"
    /\ req["r2"].outcome = "notFound"
    /\ req["r1"].lookups = 1
    /\ req["r2"].lookups = 1

\* C27: two finished invocations of the same handler with equal slug, on the
\* same content, have the same outcome and the same result, whatever ran
\* before or between them: both are given by the slug and the content alone.
HandlerIsDeterministic ==
    /\ \A a \in Requests, b \in Requests :
          ( /\ Done(a) /\ Done(b)
            /\ req[a].kind = req[b].kind
            /\ SegmentsOf(req[a].slug) = SegmentsOf(req[b].slug) )
          => /\ req[a].outcome = req[b].outcome
             /\ req[a].page = req[b].page
             /\ req[a].result = req[b].result
             /\ req[a].response = req[b].response
    /\ \A r \in Requests :
          Done(r) =>
             LET page == getPage(content, req[r].slug)
             IN /\ req[r].page = page
                /\ DonePage(r) =>
                      req[r].outcome =
                         IF page = Undefined THEN "notFound" ELSE "rendered"
                /\ (DonePage(r) /\ page # Undefined) =>
                      req[r].result = RenderPage(page)
                /\ (DoneMetadata(r) /\ page # Undefined) =>
                      req[r].result = [title |-> page.data.title,
                                       description |-> page.data.description]
                /\ (DoneMetadata(r) /\ page = Undefined) =>
                      req[r].result = EmptyMetadata

SameSlugTwiceAfterAnotherRequest ==
    /\ invoked = MaxInvocations
    /\ DonePage("r1")
    /\ DonePage("r2")
    /\ req["r1"].slug = Slug(<<"api", "missing">>)
    /\ req["r2"].slug = Slug(<<"api", "missing">>)
    /\ req["r1"].outcome = req["r2"].outcome
    /\ content # {}

\* Following the navigation link of a tree node: the router hands the link's
\* path to Page, which renders the page the node names.
LinkLeadsToPage(node) ==
    LET match == RouteMatch(node.url)
        run == PageHandler(content, [slug |-> match.slug])
    IN /\ match.handler = "docs"
       /\ run.outcome = "rendered"
       /\ run.page.url = node.url
       /\ run.result.title = node.name

\* C28: the navigation of the docs layout is the page tree of the source the
\* handlers look pages up in, so every page link of a served navigation
\* tree leads to a slug Page renders, not to not-found.
NavigationLinksLeadToPages ==
    /\ \A node \in pageTree(content) : LinkLeadsToPage(node)
    /\ \A r \in Requests :
          (DonePage(r) /\ req[r].outcome = "rendered") =>
             /\ req[r].response.main.type = "DocsLayout"
             /\ req[r].response.main.tree = pageTree(content)
             /\ \A node \in req[r].response.main.tree : LinkLeadsToPage(node)

NavigationLinkFollowed ==
    /\ DonePage("r1")
    /\ req["r1"].outcome = "rendered"
    /\ Cardinality(req["r1"].response.main.tree) >= 3
    /\ DonePage("r2")
    /\ req["r2"].outcome = "rendered"
    /\ req["r2"].slug # req["r1"].slug
    /\ \E node \in req["r1"].response.main.tree :
          /\ RouteMatch(node.url).slug = req["r2"].slug
          /\ node.name = req["r2"].result.title

====
